---- MODULE Spec2Model ----
(***************************************************************************)
(* Model of StressTest.Run (src/main.go): a token channel filled with      *)
(* Requests tokens and closed, Concurrency worker goroutines that drain it *)
(* and send one Result per GET to a buffered results channel, and the      *)
(* collector loop of Run that folds Requests results into the Report.      *)
(***************************************************************************)
EXTENDS Integers, Sequences, FiniteSets, TLC

\* ---------------------------------------------------------------- bounds
MaxRequests == 3
MaxConcurrency == 2
MaxDur == 1

\* time.Duration(1<<63 - 1) of main.go:56, scaled to the largest integer the
\* model checker represents: it is only ever compared and stored.
MinDurationInit == 2147483647

StatusOK == 200

\* Status codes a GET may answer with, and the durations it may take.
Codes == {StatusOK, 404}
Durations == 0..MaxDur

\* One more identity than Concurrency can reach, so that a spawn loop that
\* ran once too often would be visible.
Workers == 1..(MaxConcurrency + 1)

VARIABLES
    URL,            \* st.URL: "" or a non-empty string
    Requests,       \* st.Requests
    Concurrency,    \* st.Concurrency
    mpc,            \* position of main and Run: "main", "usage", "fill", "spawn",
                    \* "collect", "done", "panic", "printed"
    mi,             \* the loop variable i of Run's current loop
    requestChan,    \* [buf |-> tokens buffered, closed |-> BOOLEAN]
    results,        \* the buffered results channel, a FIFO of Result
    wg,             \* the WaitGroup counter
    wpc,            \* per goroutine: "unborn", "range", "get", "send", "exit"
    wres,           \* per goroutine: the Result it is about to send
    report,         \* *Report
    totalDuration,  \* var totalDuration
    attempts,       \* history: number of Client.Get calls started
    attempted,      \* history: the goroutines that started a Client.Get
    sent,           \* history: number of Results sent to results
    inflight,       \* history: per goroutine, Client.Get calls started and not returned
    folded          \* history: how often each Result was folded by the collector

vars == <<URL, Requests, Concurrency, mpc, mi, requestChan, results, wg, wpc, wres,
          report, totalDuration, attempts, attempted, sent, inflight, folded>>

\* ---------------------------------------------------------------- data
\* Result{Error: err}: StatusCode and Duration keep their zero values.
ErrorResult == [Error |-> TRUE, StatusCode |-> 0, Duration |-> 0]

\* Result{StatusCode: resp.StatusCode, Duration: duration}
OkResult(code, d) == [Error |-> FALSE, StatusCode |-> code, Duration |-> d]

\* The if err != nil of the goroutine body.
MkResult(err, code, d) == IF err THEN ErrorResult ELSE OkResult(code, d)

Outcomes == {ErrorResult} \cup {OkResult(c, d) : c \in Codes, d \in Durations}

NoResult == [Error |-> FALSE, StatusCode |-> -1, Duration |-> -1]

EmptyMap == [c \in {} |-> 0]

\* report.StatusCodes[code]++ on a Go map: a missing key reads as 0.
MapInc(m, k) ==
    IF k \in DOMAIN m THEN [m EXCEPT ![k] = @ + 1] ELSE m @@ (k :> 1)

\* report := &Report{StatusCodes: make(map[int]int), MinDuration: 1<<63 - 1}
NewReport ==
    [TotalRequests |-> 0, SuccessfulRequests |-> 0, FailedRequests |-> 0,
     StatusCodes |-> EmptyMap, MinDuration |-> MinDurationInit,
     MaxDuration |-> 0, AvgDuration |-> 0]

\* ---------------------------------------------------------------- sizes
\* Variant: the results buffer is sized by the number of goroutines.
ResultsCap_Concurrency == Concurrency

\* make(chan Result, st.Requests)
ResultsCap == Requests

\* make(chan struct{}, st.Requests)
RequestChanCap == Requests

\* Variant: the fill loop stops one token short.
FillBound_OneShort == Requests - 1

\* for i := 0; i < st.Requests; i++ { requestChan <- struct{}{} }
FillBound == Requests

\* Variant: the spawn loop runs once too often (i <= st.Concurrency).
SpawnBound_OneMore == Concurrency + 1

\* for i := 0; i < st.Concurrency; i++ { wg.Add(1); go func() ... }
SpawnBound == Concurrency

\* Variant: the collector loop stops one result short.
CollectBound_OneShort == Requests - 1

\* for i := 0; i < st.Requests; i++ { result := <-results ... }
CollectBound == Requests

\* ---------------------------------------------------------------- fold
\* Variant: a transport error is counted nowhere (the else of main.go:115 lost).
FoldReport_NoElse(rep, r) ==
    LET r1 == [rep EXCEPT !.TotalRequests = @ + 1] IN
    IF ~r.Error
    THEN LET r2 == [r1 EXCEPT !.StatusCodes = MapInc(@, r.StatusCode)]
             r3 == IF r.StatusCode = StatusOK
                   THEN [r2 EXCEPT !.SuccessfulRequests = @ + 1]
                   ELSE [r2 EXCEPT !.FailedRequests = @ + 1]
             r4 == IF r.Duration < r3.MinDuration
                   THEN [r3 EXCEPT !.MinDuration = r.Duration] ELSE r3
         IN  IF r.Duration > r4.MaxDuration
             THEN [r4 EXCEPT !.MaxDuration = r.Duration] ELSE r4
    ELSE r1

\* Variant: the histogram is updated before the error test, so a transport
\* error is tallied under its zero StatusCode.
FoldReport_HistFirst(rep, r) ==
    LET r1 == [rep EXCEPT !.TotalRequests = @ + 1,
                          !.StatusCodes = MapInc(@, r.StatusCode)] IN
    IF ~r.Error
    THEN LET r3 == IF r.StatusCode = StatusOK
                   THEN [r1 EXCEPT !.SuccessfulRequests = @ + 1]
                   ELSE [r1 EXCEPT !.FailedRequests = @ + 1]
             r4 == IF r.Duration < r3.MinDuration
                   THEN [r3 EXCEPT !.MinDuration = r.Duration] ELSE r3
         IN  IF r.Duration > r4.MaxDuration
             THEN [r4 EXCEPT !.MaxDuration = r.Duration] ELSE r4
    ELSE [r1 EXCEPT !.FailedRequests = @ + 1]

\* Variant: every status code from 200 up counts as a success.
FoldReport_GeOK(rep, r) ==
    LET r1 == [rep EXCEPT !.TotalRequests = @ + 1] IN
    IF ~r.Error
    THEN LET r2 == [r1 EXCEPT !.StatusCodes = MapInc(@, r.StatusCode)]
             r3 == IF r.StatusCode >= StatusOK
                   THEN [r2 EXCEPT !.SuccessfulRequests = @ + 1]
                   ELSE [r2 EXCEPT !.FailedRequests = @ + 1]
             r4 == IF r.Duration < r3.MinDuration
                   THEN [r3 EXCEPT !.MinDuration = r.Duration] ELSE r3
         IN  IF r.Duration > r4.MaxDuration
             THEN [r4 EXCEPT !.MaxDuration = r.Duration] ELSE r4
    ELSE [r1 EXCEPT !.FailedRequests = @ + 1]

\* Variant: the duration extremes are updated before the error test.
FoldReport_MinMaxAlways(rep, r) ==
    LET r1 == [rep EXCEPT !.TotalRequests = @ + 1]
        r2 == IF r.Duration < r1.MinDuration
              THEN [r1 EXCEPT !.MinDuration = r.Duration] ELSE r1
        r3 == IF r.Duration > r2.MaxDuration
              THEN [r2 EXCEPT !.MaxDuration = r.Duration] ELSE r2
    IN
    IF ~r.Error
    THEN LET r4 == [r3 EXCEPT !.StatusCodes = MapInc(@, r.StatusCode)]
         IN  IF r.StatusCode = StatusOK
             THEN [r4 EXCEPT !.SuccessfulRequests = @ + 1]
             ELSE [r4 EXCEPT !.FailedRequests = @ + 1]
    ELSE [r3 EXCEPT !.FailedRequests = @ + 1]

\* Variant: MaxDuration is overwritten without the comparison, so the last
\* response wins.
FoldReport_LastMax(rep, r) ==
    LET r1 == [rep EXCEPT !.TotalRequests = @ + 1] IN
    IF ~r.Error
    THEN LET r2 == [r1 EXCEPT !.StatusCodes = MapInc(@, r.StatusCode)]
             r3 == IF r.StatusCode = StatusOK
                   THEN [r2 EXCEPT !.SuccessfulRequests = @ + 1]
                   ELSE [r2 EXCEPT !.FailedRequests = @ + 1]
             r4 == IF r.Duration < r3.MinDuration
                   THEN [r3 EXCEPT !.MinDuration = r.Duration] ELSE r3
         IN  [r4 EXCEPT !.MaxDuration = r.Duration]
    ELSE [r1 EXCEPT !.FailedRequests = @ + 1]

\* The body of the collector loop, main.go:97-117, on the report.
FoldReport(rep, r) ==
    LET r1 == [rep EXCEPT !.TotalRequests = @ + 1] IN
    IF ~r.Error
    THEN LET r2 == [r1 EXCEPT !.StatusCodes = MapInc(@, r.StatusCode)]
             r3 == IF r.StatusCode = StatusOK
                   THEN [r2 EXCEPT !.SuccessfulRequests = @ + 1]
                   ELSE [r2 EXCEPT !.FailedRequests = @ + 1]
             r4 == IF r.Duration < r3.MinDuration
                   THEN [r3 EXCEPT !.MinDuration = r.Duration] ELSE r3
         IN  IF r.Duration > r4.MaxDuration
             THEN [r4 EXCEPT !.MaxDuration = r.Duration] ELSE r4
    ELSE [r1 EXCEPT !.FailedRequests = @ + 1]

\* The body of the collector loop on totalDuration, main.go:108.
FoldTotal(total, r) == IF ~r.Error THEN total + r.Duration ELSE total

\* Variant: the average is guarded by the wrong counter.
AvgGuard_Total(rep) == rep.TotalRequests > 0

\* if report.SuccessfulRequests > 0, main.go:122
AvgGuard(rep) == rep.SuccessfulRequests > 0

\* Variant: the close is forgotten.
CloseChan_Forgotten(ch) == ch

\* close(requestChan), main.go:67
CloseChan(ch) == [ch EXCEPT !.closed = TRUE]

\* Variant: the token is read but stays in the channel.
TokensAfterTake_Keep(n) == n

\* A receive from requestChan removes the token it returns (main.go:74).
TokensAfterTake(n) == n - 1

\* Variant: return instead of continue after a transport error.
AfterSend_ReturnOnError(r) == IF r.Error THEN "exit" ELSE "range"

\* Where a goroutine goes after its send: continue (main.go:81) and the end of
\* the loop body (main.go:89) both lead back to the range.
AfterSend(r) == "range"

\* ---------------------------------------------------------------- Init
\* The state on entry to Run, after main.go:52-60; main only calls Run with
\* requests > 0 and concurrency > 0 (main.go:137).
Init ==
    /\ URL = "http://target"
    /\ Requests \in 1..MaxRequests
    /\ Concurrency \in 1..MaxConcurrency
    /\ mpc = "fill"
    /\ mi = 0
    /\ requestChan = [buf |-> 0, closed |-> FALSE]
    /\ results = <<>>
    /\ wg = 0
    /\ wpc = [w \in Workers |-> "unborn"]
    /\ wres = [w \in Workers |-> NoResult]
    /\ report = NewReport
    /\ totalDuration = 0
    /\ attempts = 0
    /\ attempted = {}
    /\ sent = 0
    /\ inflight = [w \in Workers |-> 0]
    /\ folded = [o \in Outcomes |-> 0]

\* ---------------------------------------------------------------- Run
\* requestChan <- struct{}{} in the fill loop (main.go:64-66).
Fill ==
    /\ mpc = "fill"
    /\ mi < FillBound
    /\ ~requestChan.closed
    /\ requestChan.buf < RequestChanCap
    /\ requestChan' = [requestChan EXCEPT !.buf = @ + 1]
    /\ mi' = mi + 1
    /\ UNCHANGED <<URL, Requests, Concurrency, mpc, results, wg, wpc, wres, report,
                   totalDuration, attempts, attempted, sent, inflight, folded>>

\* close(requestChan) once the fill loop is over (main.go:67).
Close ==
    /\ mpc = "fill"
    /\ mi >= FillBound
    /\ requestChan' = CloseChan(requestChan)
    /\ mpc' = "spawn"
    /\ mi' = 0
    /\ UNCHANGED <<URL, Requests, Concurrency, results, wg, wpc, wres, report,
                   totalDuration, attempts, attempted, sent, inflight, folded>>

\* wg.Add(1); go func() {...}() (main.go:70-72).
Spawn ==
    /\ mpc = "spawn"
    /\ mi < SpawnBound
    /\ wg' = wg + 1
    /\ wpc' = [wpc EXCEPT ![mi + 1] = "range"]
    /\ mi' = mi + 1
    /\ UNCHANGED <<URL, Requests, Concurrency, mpc, requestChan, results, wres,
                   report, totalDuration, attempts, attempted, sent, inflight, folded>>

\* The spawn loop is over; Run enters the collector loop (main.go:94).
StartCollect ==
    /\ mpc = "spawn"
    /\ mi >= SpawnBound
    /\ mpc' = "collect"
    /\ mi' = 0
    /\ totalDuration' = 0
    /\ UNCHANGED <<URL, Requests, Concurrency, requestChan, results, wg, wpc, wres,
                   report, attempts, attempted, sent, inflight, folded>>

\* One iteration of the collector loop: result := <-results blocks while the
\* channel is empty, then the fold of main.go:97-117.
Collect ==
    /\ mpc = "collect"
    /\ mi < CollectBound
    /\ Len(results) > 0
    /\ LET r == Head(results) IN
        /\ report' = FoldReport(report, r)
        /\ totalDuration' = FoldTotal(totalDuration, r)
        /\ folded' = [folded EXCEPT ![r] = @ + 1]
    /\ results' = Tail(results)
    /\ mi' = mi + 1
    /\ UNCHANGED <<URL, Requests, Concurrency, mpc, requestChan, wg, wpc, wres,
                   attempts, attempted, sent, inflight>>

\* main.go:120-126: the average, then return report. An integer division by
\* zero is a run-time panic in Go.
Finalize ==
    /\ mpc = "collect"
    /\ mi >= CollectBound
    /\ IF AvgGuard(report)
       THEN IF report.SuccessfulRequests = 0
            THEN mpc' = "panic" /\ report' = report
            ELSE /\ report' = [report EXCEPT !.AvgDuration =
                                   totalDuration \div report.SuccessfulRequests]
                 /\ mpc' = "done"
       ELSE mpc' = "done" /\ report' = report
    /\ UNCHANGED <<URL, Requests, Concurrency, mi, requestChan, results, wg, wpc,
                   wres, totalDuration, attempts, attempted, sent, inflight, folded>>

\* ---------------------------------------------------------------- goroutines
\* for range requestChan receives a token (main.go:74) and the goroutine
\* calls st.Client.Get (main.go:75-76).
TakeToken(w) ==
    /\ wpc[w] = "range"
    /\ requestChan.buf > 0
    /\ requestChan' = [requestChan EXCEPT !.buf = TokensAfterTake(@)]
    /\ wpc' = [wpc EXCEPT ![w] = "get"]
    /\ attempts' = attempts + 1
    /\ attempted' = attempted \cup {w}
    /\ UNCHANGED <<URL, Requests, Concurrency, mpc, mi, results, wg, wres, report,
                   totalDuration, sent, folded>>
    /\ inflight' = [inflight EXCEPT ![w] = @ + 1]

\* st.Client.Get returns an error, or a response with a status code
\* (main.go:76-88); the goroutine builds its Result.
GetReturns(w) ==
    /\ wpc[w] = "get"
    /\ \E err \in BOOLEAN, code \in Codes, d \in Durations :
          wres' = [wres EXCEPT ![w] = MkResult(err, code, d)]
    /\ wpc' = [wpc EXCEPT ![w] = "send"]
    /\ UNCHANGED <<URL, Requests, Concurrency, mpc, mi, requestChan, results, wg,
                   report, totalDuration, attempts, attempted, sent, folded>>
    /\ inflight' = [inflight EXCEPT ![w] = @ - 1]

\* results <- Result{...} (main.go:80 and 85): blocks while the buffer is full.
Send(w) ==
    /\ wpc[w] = "send"
    /\ Len(results) < ResultsCap
    /\ results' = Append(results, wres[w])
    /\ sent' = sent + 1
    /\ wpc' = [wpc EXCEPT ![w] = AfterSend(wres[w])]
    /\ wres' = [wres EXCEPT ![w] = NoResult]
    /\ UNCHANGED <<URL, Requests, Concurrency, mpc, mi, requestChan, wg, report,
                   totalDuration, attempts, attempted, inflight, folded>>

\* for range requestChan ends on the closed, drained channel; the deferred
\* wg.Done() runs (main.go:73-74, 90).
WorkerExit(w) ==
    /\ wpc[w] = "range"
    /\ requestChan.buf = 0
    /\ requestChan.closed
    /\ wpc' = [wpc EXCEPT ![w] = "exit"]
    /\ wg' = wg - 1
    /\ UNCHANGED <<URL, Requests, Concurrency, mpc, mi, requestChan, results, wres,
                   report, totalDuration, attempts, attempted, sent, inflight, folded>>

Main == Fill \/ Close \/ Spawn \/ StartCollect \/ Collect \/ Finalize

Worker(w) == TakeToken(w) \/ GetReturns(w) \/ Send(w) \/ WorkerExit(w)

Next == Main \/ \E w \in Workers : Worker(w)

Spec == Init /\ [][Next]_vars

\* ---------------------------------------------------------------- main
\* Variant: the concurrency flag is not validated.
ConfigInvalid_NoConcurrency(u, r, c) == u = "" \/ r <= 0

\* if *url == "" || *requests <= 0 || *concurrency <= 0 (main.go:137)
ConfigInvalid(u, r, c) == u = "" \/ r <= 0 \/ c <= 0

\* The flags as parsed by main (main.go:131-134): any string, any integers;
\* the defaults are "" and 0.
MainInit ==
    /\ URL \in {"", "http://target"}
    /\ Requests \in -1..MaxRequests
    /\ Concurrency \in -1..MaxConcurrency
    /\ mpc = "main"
    /\ mi = 0
    /\ requestChan = [buf |-> 0, closed |-> FALSE]
    /\ results = <<>>
    /\ wg = 0
    /\ wpc = [w \in Workers |-> "unborn"]
    /\ wres = [w \in Workers |-> NoResult]
    /\ report = NewReport
    /\ totalDuration = 0
    /\ attempts = 0
    /\ attempted = {}
    /\ sent = 0
    /\ inflight = [w \in Workers |-> 0]
    /\ folded = [o \in Outcomes |-> 0]

\* main.go:137-145: print the error and the usage and return, or build the
\* StressTest and call Run.
Validate ==
    /\ mpc = "main"
    /\ mpc' = IF ConfigInvalid(URL, Requests, Concurrency) THEN "usage" ELSE "fill"
    /\ UNCHANGED <<URL, Requests, Concurrency, mi, requestChan, results, wg,
                   wpc, wres, report, totalDuration, attempts, attempted, sent,
                   inflight, folded>>

\* printReport(report) once Run has returned (main.go:148).
PrintReport ==
    /\ mpc = "done"
    /\ mpc' = "printed"
    /\ UNCHANGED <<URL, Requests, Concurrency, mi, requestChan, results, wg,
                   wpc, wres, report, totalDuration, attempts, attempted, sent,
                   inflight, folded>>

MainNext == Validate \/ PrintReport \/ Next

\* The whole program, from the parsed flags on.
MainSpec == MainInit /\ [][MainNext]_vars

\* The Go scheduler runs every runnable goroutine eventually, and every GET
\* returns within the client's timeout (main.go:45).
FairSpec == Spec /\ WF_vars(Main) /\ \A w \in Workers : WF_vars(Worker(w))

\* The same fairness for the goroutines and for Run up to the start of its
\* collector loop, and none for the collector loop itself.
WorkerFairSpec ==
    /\ Spec
    /\ WF_vars(Fill \/ Close \/ Spawn \/ StartCollect)
    /\ \A w \in Workers : WF_vars(Worker(w))

\* ---------------------------------------------------------------- history
RECURSIVE SumOver(_, _)
SumOver(S, f) ==
    IF S = {} THEN 0
    ELSE LET x == CHOOSE y \in S : TRUE IN f[x] + SumOver(S \ {x}, f)

\* Number of outcomes the collector has folded so far.
Consumed == SumOver(Outcomes, folded)

\* Folded outcomes that carried a transport error.
FoldedErrors == folded[ErrorResult]

\* Folded outcomes without transport error whose status code is c.
FoldedWithCode(c) ==
    SumOver({o \in Outcomes : ~o.Error /\ o.StatusCode = c}, folded)

\* Sum of the values of the histogram.
HistSum == SumOver(DOMAIN report.StatusCodes, report.StatusCodes)

\* Goroutines that hold a token whose Result is not sent yet.
Busy == {w \in Workers : wpc[w] \in {"get", "send"}}

\* Every goroutine Run started has left its loop.
AllExited ==
    /\ mpc \in {"collect", "done"}
    /\ \A w \in Workers : wpc[w] \in {"unborn", "exit"}

\* ---------------------------------------------------------------- claims

\* C1: Run consumes exactly Requests outcomes: never more than Requests, it
\* does not return before the last of them is consumed, and the report it
\* returns has TotalRequests = Requests, for every Concurrency.
C1_ConsumesExactlyN ==
    /\ Consumed <= Requests
    /\ report.TotalRequests = Consumed
    /\ mpc = "done" => Consumed = Requests /\ report.TotalRequests = Requests

\* Run has returned with a single goroutine that served several requests and
\* is still running.
C1_Witness ==
    mpc = "done" /\ Concurrency = 1 /\ Requests > 1 /\ wg > 0

\* C2: the goroutines start at most Requests GETs, exactly Requests once all
\* have exited; every started GET is either still in progress or has sent
\* exactly one Result, transport error or not; none is repeated.
C2_OneResultPerAttempt ==
    /\ attempts <= Requests
    /\ attempts = sent + Cardinality(Busy)
    /\ attempts + requestChan.buf = (IF mpc = "fill" THEN mi ELSE Requests)
    /\ AllExited => attempts = Requests /\ sent = Requests

\* All goroutines have exited after a run in which a GET failed at transport
\* level and another GET followed it.
C2_Witness ==
    /\ AllExited
    /\ mpc = "done"
    /\ Requests > Concurrency
    /\ FoldedErrors > 0
    /\ FoldedErrors < Requests

\* C3: under fair scheduling, with every GET returning, Run returns; no
\* reachable state before the return is one where nothing can run.
C3_RunReturns ==
    /\ [](mpc # "done" => ENABLED Next)
    /\ <>(mpc = "done")

\* Run has returned although more goroutines were started than there were
\* requests, and all of them are gone.
C3_Witness ==
    mpc = "done" /\ Concurrency > Requests /\ wg = 0 /\ AllExited

\* C4: at most Concurrency GETs are in flight, at most one per goroutine.
C4_InFlightBounded ==
    /\ SumOver(Workers, inflight) <= Concurrency
    /\ \A w \in Workers : inflight[w] \in {0, 1}
    /\ \A w \in Workers : inflight[w] = 1 <=> wpc[w] = "get"

\* Every goroutine has a GET in flight at once, and there are several.
C4_Witness ==
    /\ Concurrency > 1
    /\ SumOver(Workers, inflight) = Concurrency

\* C5: after every fold, and in the returned report,
\* SuccessfulRequests + FailedRequests = TotalRequests.
C5_SuccessPlusFailed ==
    report.SuccessfulRequests + report.FailedRequests = report.TotalRequests

\* The returned report covers a transport error, a 200 and another status.
C5_Witness ==
    /\ mpc = "done"
    /\ FoldedErrors > 0
    /\ FoldedWithCode(StatusOK) > 0
    /\ FoldedWithCode(404) > 0

\* C6: after every fold, and in the returned report, the values of StatusCodes
\* sum to TotalRequests minus the number of folded transport errors.
C6_HistogramSum ==
    HistSum = report.TotalRequests - FoldedErrors

\* A report with a transport error folded and two distinct codes tallied.
C6_Witness ==
    /\ FoldedErrors > 0
    /\ Cardinality(DOMAIN report.StatusCodes) = 2
    /\ mpc = "done"

\* C7: in the returned report MinDuration <= AvgDuration <= MaxDuration
\* whenever SuccessfulRequests > 0.
C7_MinAvgMax ==
    (mpc = "done" /\ report.SuccessfulRequests > 0) =>
        /\ report.MinDuration <= report.AvgDuration
        /\ report.AvgDuration <= report.MaxDuration

\* C8: in the returned report SuccessfulRequests counts the 200s without
\* transport error, FailedRequests the transport errors and the other codes,
\* StatusCodes[c] the outcomes without transport error with code c, and
\* StatusCodes has no other entry.
C8_Counts ==
    mpc = "done" =>
        /\ report.SuccessfulRequests = FoldedWithCode(StatusOK)
        /\ report.FailedRequests =
               FoldedErrors + SumOver({o \in Outcomes : ~o.Error
                                          /\ o.StatusCode # StatusOK}, folded)
        /\ DOMAIN report.StatusCodes = {c \in Codes : FoldedWithCode(c) > 0}
        /\ \A c \in DOMAIN report.StatusCodes :
               report.StatusCodes[c] = FoldedWithCode(c)
        /\ FoldedErrors = Requests =>
               /\ report.SuccessfulRequests = 0
               /\ report.FailedRequests = Requests
               /\ report.StatusCodes = EmptyMap

\* Every GET of a run of several requests failed at transport level.
C8_Witness ==
    mpc = "done" /\ Requests > 1 /\ FoldedErrors = Requests

\* C9: a returned report with SuccessfulRequests = 0 has AvgDuration = 0,
\* and Run never divides by zero.
C9_ZeroSuccessAvg ==
    /\ mpc # "panic"
    /\ (mpc = "done" /\ report.SuccessfulRequests = 0) => report.AvgDuration = 0

\* Run returned with no success but with durations accumulated from
\* responses other than 200.
C9_Witness ==
    /\ mpc = "done"
    /\ report.SuccessfulRequests = 0
    /\ totalDuration > 0
    /\ FoldedErrors > 0

\* C10: when Concurrency > Requests, at most Requests goroutines ever start
\* a GET, and once all have exited at least Concurrency - Requests of them
\* have exited without starting one.
C10_IdleWorkers ==
    Concurrency > Requests =>
        /\ Cardinality(attempted) <= Requests
        /\ AllExited =>
               Cardinality({w \in 1..Concurrency :
                               wpc[w] = "exit" /\ w \notin attempted})
                   >= Concurrency - Requests
        /\ (AllExited /\ mpc = "done" /\ Requests = 1) => Consumed = 1

\* More goroutines than requests, all exited, Run returned.
C10_Witness ==
    /\ Concurrency > Requests
    /\ AllExited
    /\ mpc = "done"
    /\ Cardinality(attempted) = Requests

\* C11: with an empty url, or requests <= 0, or concurrency <= 0, main
\* reports the error and returns without calling Run: no goroutine is
\* started, no token is queued, no GET is issued and no report is printed.
C11_InvalidConfigNoRun ==
    (URL = "" \/ Requests <= 0 \/ Concurrency <= 0) =>
        /\ mpc \in {"main", "usage"}
        /\ \A w \in Workers : wpc[w] = "unborn"
        /\ wg = 0
        /\ requestChan = [buf |-> 0, closed |-> FALSE]
        /\ attempts = 0
        /\ sent = 0
        /\ report = NewReport

\* main has returned on a configuration whose only fault is the concurrency.
C11_Witness ==
    mpc = "usage" /\ URL # "" /\ Requests > 0 /\ Concurrency <= 0

\* ---------------------------------------------------------------- durations
\* Folded outcomes that are successes: no transport error, status 200.
FoldedSuccesses == {o \in Outcomes : ~o.Error /\ o.StatusCode = StatusOK /\ folded[o] > 0}

\* Folded outcomes that carried a response, whatever its status.
FoldedResponses == {o \in Outcomes : ~o.Error /\ folded[o] > 0}

\* Sum of the durations of the folded outcomes of S, with multiplicity.
DurationSum(S) == SumOver(S, [o \in S |-> folded[o] * o.Duration])

MinOf(S) == CHOOSE x \in S : \A y \in S : x <= y

MaxOf(S) == CHOOSE x \in S : \A y \in S : x >= y

\* C12: the duration statistics cover the successful outcomes only: the
\* running total is the sum of their durations (a non-200 outcome changes
\* none of the total, MinDuration and MaxDuration), and with
\* SuccessfulRequests > 0 the returned AvgDuration is that sum divided by
\* SuccessfulRequests, MinDuration their smallest and MaxDuration their
\* largest duration.
C12_StatsOverSuccesses ==
    mpc \in {"collect", "done"} =>
        /\ totalDuration = DurationSum(FoldedSuccesses)
        /\ report.SuccessfulRequests > 0 =>
            /\ report.MinDuration = MinOf({o.Duration : o \in FoldedSuccesses})
            /\ report.MaxDuration = MaxOf({o.Duration : o \in FoldedSuccesses})
            /\ mpc = "done" =>
                   report.AvgDuration =
                       DurationSum(FoldedSuccesses) \div report.SuccessfulRequests

\* C13: if no outcome is successful, the returned report keeps MinDuration at
\* its initial sentinel and MaxDuration at 0.
C13_SentinelKept ==
    (mpc = "done" /\ report.SuccessfulRequests = 0) =>
        /\ report.MinDuration = MinDurationInit
        /\ report.MaxDuration = 0

\* C14: folding an outcome that carries a transport error adds one to
\* TotalRequests and to FailedRequests and changes nothing else of the report
\* nor the running total.
C14_ErrorFoldFrame ==
    [][(folded'[ErrorResult] = folded[ErrorResult] + 1) =>
          /\ report' = [report EXCEPT !.TotalRequests = @ + 1,
                                      !.FailedRequests = @ + 1]
          /\ totalDuration' = totalDuration]_vars

\* A transport error has been folded into a report that already holds a
\* response of positive duration.
C14_Witness ==
    /\ FoldedErrors > 0
    /\ report.MaxDuration > 0
    /\ report.MinDuration > 0
    /\ report.TotalRequests = 2

\* C15: the results channel never holds more than Requests outcomes and a
\* goroutine that is about to send finds room: its send is enabled at once.
C15_SendNeverBlocks ==
    /\ Len(results) <= Requests
    /\ \A w \in Workers :
           wpc[w] = "send" => Len(results) < Requests /\ ENABLED Send(w)

\* All outcomes of a run of several requests sit in the channel, all
\* goroutines are gone and the collector has consumed nothing.
C15_Witness ==
    /\ Requests > 1
    /\ Len(results) = Requests
    /\ Consumed = 0
    /\ AllExited

\* C16: when the first goroutine starts the token channel is closed and held
\* exactly Requests tokens; no token is added afterwards; a goroutine at the
\* range never blocks: it gets a token or sees the closed, drained channel.
C16_TokensClosedBeforeWorkers ==
    /\ [](/\ (mpc = "spawn" /\ mi = 0) =>
                requestChan = [buf |-> Requests, closed |-> TRUE]
          /\ (\E w \in Workers : wpc[w] # "unborn") =>
                requestChan.closed /\ requestChan.buf + attempts = Requests
          /\ \A w \in Workers :
                wpc[w] = "range" => ENABLED TakeToken(w) \/ ENABLED WorkerExit(w))
    /\ [][requestChan.closed =>
             requestChan'.closed /\ requestChan'.buf <= requestChan.buf]_vars

\* A goroutine faces the closed, drained channel while its peer is still busy
\* with the last token.
C16_Witness ==
    /\ requestChan = [buf |-> 0, closed |-> TRUE]
    /\ \E w \in Workers : wpc[w] = "range"
    /\ \E w \in Workers : wpc[w] = "get"

\* Every goroutine Run started has exited and the WaitGroup is back to 0.
WorkersGone ==
    /\ mpc \in {"collect", "done"}
    /\ \A w \in 1..Concurrency : wpc[w] = "exit"
    /\ wg = 0

\* C17: with the goroutines scheduled fairly and every GET returning, all
\* Concurrency goroutines eventually exit, whatever the collector does.
C17_WorkersExit == <>WorkersGone

\* All goroutines have exited before the collector consumed anything.
C17_Witness ==
    WorkersGone /\ Consumed = 0 /\ Requests > 1 /\ Concurrency > 1

\* The report determined by the multiset of folded outcomes alone.
BagReport ==
    LET resp == FoldedResponses
        succ == FoldedWithCode(StatusOK)
        durs == {o.Duration : o \in resp}
    IN  [TotalRequests |-> Consumed,
         SuccessfulRequests |-> succ,
         FailedRequests |-> Consumed - succ,
         StatusCodes |-> [c \in {o.StatusCode : o \in resp} |-> FoldedWithCode(c)],
         MinDuration |-> IF resp = {} THEN MinDurationInit ELSE MinOf(durs),
         MaxDuration |-> IF resp = {} THEN 0 ELSE MaxOf(durs),
         AvgDuration |-> IF succ > 0 THEN DurationSum(resp) \div succ ELSE 0]

\* C18: the returned report (TotalTime aside) depends only on the multiset
\* of outcomes, not on the order in which they arrived.
C18_OrderIndependent ==
    mpc = "done" => report = BagReport

\* Run returned after folding outcomes of at least two different kinds with
\* different durations.
C18_Witness ==
    /\ mpc = "done"
    /\ Cardinality({o.Duration : o \in FoldedResponses}) > 1
    /\ Cardinality({o.StatusCode : o \in FoldedResponses}) > 1
    /\ Concurrency > 1

\* C19: once the token channel is filled, tokens left + attempts whose
\* outcome is not sent yet + outcomes buffered + outcomes consumed = Requests.
C19_Conservation ==
    mpc \in {"spawn", "collect", "done"} =>
        requestChan.buf + Cardinality(Busy) + Len(results) + Consumed = Requests

\* Work is spread over three of the four places at once.
C19_Witness ==
    /\ Cardinality(Busy) > 0
    /\ Len(results) > 0
    /\ Consumed > 0

\* C20: when Run returns the token channel is drained, no GET is in flight
\* and the results channel is empty; a goroutine still running is at the
\* range of the closed channel and sends nothing more.
C20_QuiescentAtReturn ==
    mpc = "done" =>
        /\ requestChan = [buf |-> 0, closed |-> TRUE]
        /\ results = <<>>
        /\ \A w \in Workers : wpc[w] \in {"unborn", "range", "exit"}
        /\ \A w \in Workers : inflight[w] = 0
        /\ \A w \in Workers : wpc[w] = "range" => ENABLED WorkerExit(w)
                                                  /\ ~ENABLED TakeToken(w)
        /\ sent = Requests

\* Run has returned while several of its goroutines have not exited yet.
C20_Witness ==
    /\ mpc = "done"
    /\ Cardinality({w \in Workers : wpc[w] = "range"}) > 1
    /\ wg > 1

====
